---- MODULE Spec2Model ----
(***************************************************************************)
(* Model of src/src/tsclient.ts: the Compiler class of the TypeScript       *)
(* compilation client.  One compile cycle is modelled: Compiler.compile     *)
(* enumerates the script elements of the host document, fetches the remote  *)
(* ones, posts the program to the build service and injects the returned    *)
(* artifacts.  Every callback (xhr.onload, xhr.onerror) is one action: the  *)
(* browser runs them one at a time on a single thread.                      *)
(*                                                                         *)
(* Strings the code inspects character by character (script locations and   *)
(* artifact names) are sequences of one-character strings.                  *)
(***************************************************************************)
EXTENDS Integers, Sequences, FiniteSets, TLC

VARIABLES
    instance,        \* Compiler.instance is set (configure has run)
    document,        \* the host document's script elements (fixed snapshot)
    consoleErrors,   \* number of console.error calls
    waitingXHRsRef,  \* readScripts' {n, called}
    files,           \* readScripts' files array
    xhrs,            \* readScripts' xhrs array, with each request's state
    callbacks,       \* number of invocations of readScripts' callback
    request,         \* compile()'s XMLHttpRequest: state and body sent
    response,        \* what the compile request ended with
    other,           \* the locals and request of a second, overlapping compile()
    dom              \* status line, spinner, notes, diagnostics, injected scripts

vars == <<instance, document, consoleErrors, waitingXHRsRef, files, xhrs,
          callbacks, request, response, other, dom>>

----------------------------------------------------------------------------
(* Bounds of the model. *)

MaxScripts == 2        \* source script elements in the document
MaxFiles == 2          \* artifacts in a compile response
MaxConsoleErrors == 1  \* compile() calls made before configure()

----------------------------------------------------------------------------
(* JavaScript string primitives, on sequences of characters. *)

Max(a, b) == IF a >= b THEN a ELSE b

Min(a, b) == IF a <= b THEN a ELSE b

\* String.prototype.lastIndexOf: 0-based index of the last occurrence, or -1.
LastIndexOf(s, pat) ==
    LET hits == {i \in 0..(Len(s) - Len(pat)) :
                    SubSeq(s, i + 1, i + Len(pat)) = pat}
    IN IF hits = {} THEN -1 ELSE CHOOSE i \in hits : \A j \in hits : j <= i

\* String.prototype.substring(start): a negative start is taken as 0.
Substring(s, start) == SubSeq(s, Min(Max(start, 0), Len(s)) + 1, Len(s))

JsExt == <<".", "j", "s">>

Slash == <<"/">>

Digits == <<"0", "1", "2", "3", "4", "5", "6", "7", "8", "9">>

\* Template literal `script-${scriptNumber}.ts`.
ScriptName(scriptNumber) ==
    <<"s", "c", "r", "i", "p", "t", "-">> \o <<Digits[scriptNumber + 1]>>
        \o <<".", "t", "s">>

TsconfigName == <<"tsconfig.json">>

----------------------------------------------------------------------------
(* The host document. *)

\* The URL the document's relative locations are resolved against.
DocBase == <<"h", "/">>

\* Values of a script element's src attribute: a file and a directory.
SrcAttrs == {<<"a">>, <<"d", "/">>}

InlineElem == [hasSrc |-> FALSE, src |-> <<>>, innerHTML |-> "inline code"]

RemoteElem(a) == [hasSrc |-> TRUE, src |-> a, innerHTML |-> ""]

ScriptElems == {InlineElem} \cup {RemoteElem(a) : a \in SrcAttrs}

\* HTMLScriptElement.src: "" without the attribute, else the resolved URL.
SrcProperty(script) == IF script.hasSrc THEN DocBase \o script.src ELSE <<>>

SeqsUpTo(S, n) == UNION {[1..k -> S] : k \in 0..n}

\* querySelectorAll gives the source scripts in document order; querySelector
\* gives the first configuration element or null (here the empty sequence).
Documents ==
    [scripts : SeqsUpTo(ScriptElems, MaxScripts),
     config : {<<>>, <<InlineElem>>, <<RemoteElem(<<"c">>)>>}]

\* Bodies a fetch of a remote script can load.
FetchBodies == {"remote code"}

----------------------------------------------------------------------------
(* The status UI (lines 34-80). *)

GenericError == <<"A server error occurred.">>

FaultError(reason) == <<"A server error occurred: <br/> ", reason>>

CompilationFailed == <<"Compilation failed.">>

\* The global window.status that hideStatus writes into the status line.
WindowStatus == <<"">>

SetError(d, text) == [d EXCEPT !.status = [text |-> text, class |-> "header error"]]

HideStatus(d) == [d EXCEPT !.status = [text |-> WindowStatus, class |-> "header hidden"]]

HideSpinner(d) == [d EXCEPT !.spinner = "hidden"]

AddNote(d) == [d EXCEPT !.notes = @ + 1]

----------------------------------------------------------------------------
(* The compile endpoint's responses. *)

\* Configuration passed to the constructor (lines 83-88).
OutputJsType == "text/javascript"

OutputOtherType == "text/plain"

\* Artifacts a response can carry; the content identifies the artifact.
Artifacts ==
    {[name |-> <<"b", ".", "j", "s">>, content |-> "code b"],
     [name |-> <<"m", "d">>, content |-> "notes"]}

\* A files entry that is the JSON value null: reading its name throws.
NullEntry == [name |-> <<>>, content |-> "null"]

Reasons == {"overloaded"}

\* The value of a property the envelope does not carry.
Undefined == "undefined"

\* Diagnostic payloads: none (no pre element to find), or markup with a pre
\* element.
PreResult == "<pre>error</pre>"

Results == {Undefined, PreResult}

\* Response texts: not JSON at all, the JSON value null, or a JSON object
\* (error and success read as false when the object does not carry them;
\* an object without error: true carries no reason).
ResponseBodies ==
    {[kind |-> k, error |-> FALSE, reason |-> Undefined, success |-> FALSE,
      result |-> Undefined, hasFiles |-> FALSE, files |-> <<>>] :
        k \in {"text", "null"}}
    \cup
    {b \in [kind : {"object"}, error : BOOLEAN, reason : Reasons \cup {Undefined},
            success : BOOLEAN, result : Results, hasFiles : BOOLEAN,
            files : SeqsUpTo(Artifacts \cup {NullEntry}, MaxFiles)] :
        /\ b.error <=> b.reason # Undefined
        /\ ~b.hasFiles => b.files = <<>>}

NoResponse ==
    [kind |-> "none", error |-> FALSE, reason |-> Undefined, success |-> FALSE,
     result |-> Undefined, hasFiles |-> FALSE, files |-> <<>>]

NetworkError == [NoResponse EXCEPT !.kind = "neterror"]

\* fragment.querySelector("pre"): null unless the markup holds a pre element.
QueryPre(result) == IF result = PreResult THEN "error" ELSE "null"

----------------------------------------------------------------------------
(* Compiler.addScript and Compiler.showOutput. *)

\* Line 130: file.name.lastIndexOf(".js") === file.name.length - 3
IsJsName(name) == LastIndexOf(name, JsExt) = Len(name) - 3

\* Mutant: the element is put in front with insertBefore, as line 155 does
\* for the diagnostics, and not appended.
AddScriptInFront(d, file) ==
    LET type == IF LastIndexOf(file.name, JsExt) = Len(file.name) - 3
                THEN OutputJsType ELSE OutputOtherType
    IN [d EXCEPT !.scripts = <<[type |-> type, innerHTML |-> file.content]>> \o @]

AddScript(d, file) ==
    LET type == IF IsJsName(file.name) THEN OutputJsType ELSE OutputOtherType
    IN [d EXCEPT !.scripts = Append(@, [type |-> type, innerHTML |-> file.content])]

\* Mutant: an entry that cannot be injected is skipped and the loop goes on.
RECURSIVE AddScriptsSkipping(_, _)
AddScriptsSkipping(d, fs) ==
    IF fs = <<>> THEN [dom |-> d, threw |-> FALSE]
    ELSE IF Head(fs) = NullEntry THEN AddScriptsSkipping(d, Tail(fs))
    ELSE AddScriptsSkipping(AddScript(d, Head(fs)), Tail(fs))

\* Lines 167-169: for (let file of output.files) this.addScript(file).
\* addScript throws at line 130 on a null entry, before it appends anything;
\* the loop ends there.  The result is the document and whether it threw.
RECURSIVE AddScripts(_, _)
AddScripts(d, fs) ==
    IF fs = <<>> THEN [dom |-> d, threw |-> FALSE]
    ELSE IF Head(fs) = NullEntry THEN [dom |-> d, threw |-> TRUE]
    ELSE AddScripts(AddScript(d, Head(fs)), Tail(fs))

\* Mutant: the return of line 161 is missing, a failed compilation goes on
\* to the injection loop.
ShowOutputNoReturn(d, output) ==
    LET inner == QueryPre(output.result) IN
    IF inner = "null"
    THEN [dom |-> d, threw |-> TRUE]
    ELSE
        LET d1 == [d EXCEPT !.rendered = Append(@, inner)]
            d2 == IF ~output.success
                  THEN HideSpinner(SetError(d1, CompilationFailed))
                  ELSE HideSpinner(HideStatus(d1))
        IN IF ~output.hasFiles
           THEN [dom |-> d2, threw |-> TRUE]
           ELSE AddScripts(d2, output.files)

\* The result is the document after the call and whether the call threw.
ShowOutput(d, output) ==
    LET inner == QueryPre(output.result) IN
    IF inner = "null"
    THEN [dom |-> d, threw |-> TRUE]     \* div.appendChild(null) throws
    ELSE
        LET d1 == [d EXCEPT !.rendered = Append(@, inner)] IN
        IF ~output.success
        THEN [dom |-> HideSpinner(SetError(d1, CompilationFailed)), threw |-> FALSE]
        ELSE
            LET d2 == HideSpinner(HideStatus(d1)) IN
            IF ~output.hasFiles
            THEN [dom |-> d2, threw |-> TRUE]   \* undefined is not iterable
            ELSE AddScripts(d2, output.files)

\* Mutant: the exception is swallowed without a report.
CatchBlockSilent(d) == HideSpinner(d)

\* Lines 109-112, the catch block of the compile request's onload.
CatchBlock(d) == HideSpinner(SetError(d, GenericError))

\* Lines 101-113, the compile request's onload handler, on a response text.
OnloadResult(d, body) ==
    IF body.kind \in {"text", "null"}
    THEN CatchBlock(d)    \* JSON.parse throws, or output.error is read off null
    ELSE
        LET d1 == IF body.error
                  THEN HideSpinner(SetError(d, FaultError(body.reason)))
                  ELSE d
            shown == ShowOutput(d1, body)
        IN IF shown.threw THEN CatchBlock(shown.dom) ELSE shown.dom

----------------------------------------------------------------------------
(* Compiler.readScript and Compiler.readScripts: the join. *)

\* Lines 234-236: the name readScripts gives source script number scriptNumber.
FragmentName(script, scriptNumber) ==
    LET src == SrcProperty(script)
        name == Substring(src, LastIndexOf(src, Slash))
    IN IF name = <<>> THEN ScriptName(scriptNumber) ELSE name

\* Mutant: the countdown is compared off by one.
JoinReadyOffByOne(ref) == ref.n <= 1 /\ ~ref.called

\* Lines 208 and 255: waitingXHRsRef.n === 0 && !waitingXHRsRef.called
JoinReady(ref) == ref.n = 0 /\ ~ref.called

\* Lines 120-122, the callback compile() passes: xhr.send(JSON.stringify(program)).
\* A request can be sent once; the body is the files array as it is then.
Callback(j) ==
    [j EXCEPT !.callbacks = @ + 1,
              !.request = IF @.state = "opened"
                          THEN [state |-> "sent", body |-> j.files]
                          ELSE @]

\* Mutant: the request is sent as soon as it is prepared, inside the
\* enumeration.
ReadScriptSendsAtOnce(j, name, script, index) ==
    IF ~script.hasSrc
    THEN [j EXCEPT !.files = Append(@, [name |-> name, content |-> script.innerHTML])]
    ELSE [j EXCEPT !.waitingXHRsRef.n = @ + 1,
                   !.xhrs = Append(@, [name |-> name, src |-> script.src,
                                       index |-> index, state |-> "sent",
                                       waitingAtSend |-> j.waitingXHRsRef.n + 1,
                                       loadedAt |-> 0])]

\* Mutant: waitingXHRsRef.n is counted up for inline elements too.
ReadScriptCountsInline(j, name, script, index) ==
    IF ~script.hasSrc
    THEN [j EXCEPT !.waitingXHRsRef.n = @ + 1,
                   !.files = Append(@, [name |-> name, content |-> script.innerHTML])]
    ELSE [j EXCEPT !.waitingXHRsRef.n = @ + 1,
                   !.xhrs = Append(@, [name |-> name, src |-> script.src,
                                       index |-> index, state |-> "opened",
                                       waitingAtSend |-> 0, loadedAt |-> 0])]

\* Lines 188-214.  j holds readScripts' locals; index is the element's place
\* in the enumeration (0 for the configuration element).  Each request
\* records what the properties observe of it: waitingAtSend, the value of
\* waitingXHRsRef.n when it was sent, and loadedAt, its place among the
\* load events handled (0 before).
ReadScript(j, name, script, index) ==
    IF ~script.hasSrc
    THEN [j EXCEPT !.files = Append(@, [name |-> name, content |-> script.innerHTML])]
    ELSE [j EXCEPT !.waitingXHRsRef.n = @ + 1,
                   !.xhrs = Append(@, [name |-> name, src |-> script.src,
                                       index |-> index, state |-> "opened",
                                       waitingAtSend |-> 0, loadedAt |-> 0])]

\* Lines 233-245, from source script i on.
RECURSIVE ReadSourceScripts(_, _, _)
ReadSourceScripts(j, scripts, i) ==
    IF i > Len(scripts) THEN j
    ELSE ReadSourceScripts(
            ReadScript(j, FragmentName(scripts[i], i - 1), scripts[i], i),
            scripts, i + 1)

\* Lines 247-249.
ReadConfig(j, doc) ==
    IF doc.config # <<>> THEN ReadScript(j, TsconfigName, doc.config[1], 0) ELSE j

\* Lines 251-253: every queued request is sent.
SendAll(j) ==
    [j EXCEPT !.xhrs = [k \in DOMAIN @ |->
        IF @[k].state = "opened"
        THEN [@[k] EXCEPT !.state = "sent", !.waitingAtSend = j.waitingXHRsRef.n]
        ELSE @[k]]]

\* Mutant: readScripts returns without the check after the dispatch loop.
FinalCheckMissing(j) == j

\* Lines 255-257.
FinalCheck(j) == IF JoinReady(j.waitingXHRsRef) THEN Callback(j) ELSE j

\* Lines 227-257: readScripts on a document, from fresh locals.
ReadScripts(j, doc) ==
    LET j0 == [j EXCEPT !.files = <<>>,
                        !.waitingXHRsRef = [n |-> 0, called |-> FALSE],
                        !.xhrs = <<>>]
    IN FinalCheck(SendAll(ReadConfig(ReadSourceScripts(j0, doc.scripts, 1), doc)))

\* The number of load events handled so far.
LoadedCount(j) == Cardinality({k \in DOMAIN j.xhrs : j.xhrs[k].state = "loaded"})

\* Mutant: the callback is called without the countdown check.
FetchLoadedAlwaysFires(j, k, text) ==
    Callback([j EXCEPT !.files = Append(@, [name |-> j.xhrs[k].name, content |-> text]),
                       !.waitingXHRsRef.n = @ - 1,
                       !.xhrs[k].state = "loaded",
                       !.xhrs[k].loadedAt = LoadedCount(j) + 1])

\* Mutant: the fetched fragment is put in front of the files array.
FetchLoadedInFront(j, k, text) ==
    LET j1 == [j EXCEPT !.files = <<[name |-> j.xhrs[k].name, content |-> text]>> \o @,
                        !.waitingXHRsRef.n = @ - 1,
                        !.xhrs[k].state = "loaded",
                        !.xhrs[k].loadedAt = LoadedCount(j) + 1]
    IN IF j1.waitingXHRsRef.n = 0 /\ ~j1.waitingXHRsRef.called
       THEN Callback(j1) ELSE j1

\* Lines 200-211: the onload handler of fetch k, loading text.
FetchLoaded(j, k, text) ==
    LET j1 == [j EXCEPT !.files = Append(@, [name |-> j.xhrs[k].name, content |-> text]),
                        !.waitingXHRsRef.n = @ - 1,
                        !.xhrs[k].state = "loaded",
                        !.xhrs[k].loadedAt = LoadedCount(j) + 1]
    IN IF JoinReady(j1.waitingXHRsRef) THEN Callback(j1) ELSE j1

----------------------------------------------------------------------------
(* The state machine. *)

Join ==
    [waitingXHRsRef |-> waitingXHRsRef, files |-> files, xhrs |-> xhrs,
     callbacks |-> callbacks, request |-> request]

SetJoin(j) ==
    /\ waitingXHRsRef' = j.waitingXHRsRef
    /\ files' = j.files
    /\ xhrs' = j.xhrs
    /\ callbacks' = j.callbacks
    /\ request' = j.request

\* The page before compile() has touched it.
InitialDom ==
    [status |-> [text |-> <<"Compiling">>, class |-> "header"],
     spinner |-> "shown", notes |-> 0, rendered |-> <<>>, scripts |-> <<>>]

Init ==
    /\ instance = FALSE
    /\ document \in Documents
    /\ consoleErrors = 0
    /\ waitingXHRsRef = [n |-> 0, called |-> FALSE]
    /\ files = <<>>
    /\ xhrs = <<>>
    /\ callbacks = 0
    /\ request = [state |-> "unsent", body |-> <<>>]
    /\ response = NoResponse
    /\ other = [waitingXHRsRef |-> [n |-> 0, called |-> FALSE], files |-> <<>>,
                xhrs |-> <<>>, callbacks |-> 0,
                request |-> [state |-> "unsent", body |-> <<>>]]
    /\ dom = InitialDom

\* Lines 264-266: Compiler.configure.
Configure ==
    /\ instance' = TRUE
    /\ UNCHANGED <<other, document, consoleErrors, waitingXHRsRef, files, xhrs,
                   callbacks, request, response, dom>>

\* Mutant: the static compile() does not test the instance.
CompileUnchecked ==
    /\ request.state = "unsent"
    /\ SetJoin(ReadScripts([Join EXCEPT !.request.state = "opened"], document))
    /\ dom' = IF document.config = <<>> THEN AddNote(dom) ELSE dom
    /\ UNCHANGED <<other, instance, document, consoleErrors, response>>

\* Lines 269-275 and 96-124: Compiler.compile.  The host page starts one
\* compile cycle; a call before configure only logs to the console.
Compile ==
    IF instance
    THEN /\ request.state = "unsent"
         /\ SetJoin(ReadScripts([Join EXCEPT !.request.state = "opened"], document))
         /\ dom' = IF document.config = <<>> THEN AddNote(dom) ELSE dom
         /\ UNCHANGED <<other, instance, document, consoleErrors, response>>
    ELSE /\ consoleErrors < MaxConsoleErrors
         /\ consoleErrors' = consoleErrors + 1
         /\ UNCHANGED <<other, instance, document, waitingXHRsRef, files, xhrs,
                        callbacks, request, response, dom>>

\* A fetch completes with a load event.
FetchOnload(k, text) ==
    /\ xhrs[k].state = "sent"
    /\ SetJoin(FetchLoaded(Join, k, text))
    /\ UNCHANGED <<other, instance, document, consoleErrors, response, dom>>

\* A fetch fails at the network: readScript registers no onerror handler.
FetchOnerror(k) ==
    /\ xhrs[k].state = "sent"
    /\ xhrs' = [xhrs EXCEPT ![k].state = "failed"]
    /\ UNCHANGED <<other, instance, document, consoleErrors, waitingXHRsRef, files,
                   callbacks, request, response, dom>>

\* Lines 101-113: the compile request loads a response.
CompileOnload(body) ==
    /\ request.state = "sent"
    /\ request' = [request EXCEPT !.state = "done"]
    /\ response' = body
    /\ dom' = OnloadResult(dom, body)
    /\ UNCHANGED <<other, instance, document, consoleErrors, waitingXHRsRef, files,
                   xhrs, callbacks>>

\* Lines 115-118: the compile request fails at the network.
CompileOnerror ==
    /\ request.state = "sent"
    /\ request' = [request EXCEPT !.state = "done"]
    /\ response' = NetworkError
    /\ dom' = HideSpinner(SetError(dom, GenericError))
    /\ UNCHANGED <<other, instance, document, consoleErrors, waitingXHRsRef, files,
                   xhrs, callbacks>>

Next ==
    \/ Configure
    \/ Compile
    \/ \E k \in DOMAIN xhrs : \E text \in FetchBodies : FetchOnload(k, text)
    \/ \E k \in DOMAIN xhrs : FetchOnerror(k)
    \/ \E body \in ResponseBodies : CompileOnload(body)
    \/ CompileOnerror

Spec == Init /\ [][Next]_vars

----------------------------------------------------------------------------
(* Two overlapping invocations of compile() on the configured instance.    *)
(* The second call runs while the first is under way; its readScripts has  *)
(* its own locals and its compile() its own request, held in other.  The   *)
(* two compile requests stay in flight.                                    *)

\* Mutant: files, xhrs and waitingXHRsRef are kept on the instance, so the
\* second call enumerates into the first call's state.
CompileAgainShared ==
    /\ instance
    /\ request.state # "unsent"
    /\ other.request.state = "unsent"
    /\ SetJoin(FinalCheck(SendAll(ReadConfig(
            ReadSourceScripts(Join, document.scripts, 1), document))))
    /\ other' = [other EXCEPT !.request.state = "opened"]
    /\ dom' = IF document.config = <<>> THEN AddNote(dom) ELSE dom
    /\ UNCHANGED <<instance, document, consoleErrors, response>>

\* Lines 269-275 and 96-124: compile() called again.
CompileAgain ==
    /\ instance
    /\ request.state # "unsent"
    /\ other.request.state = "unsent"
    /\ other' = ReadScripts([other EXCEPT !.request.state = "opened"], document)
    /\ dom' = IF document.config = <<>> THEN AddNote(dom) ELSE dom
    /\ UNCHANGED <<instance, document, consoleErrors, waitingXHRsRef, files,
                   xhrs, callbacks, request, response>>

\* Lines 200-211: a fetch of the second call loads.
OtherFetchOnload(k, text) ==
    /\ other.xhrs[k].state = "sent"
    /\ other' = FetchLoaded(other, k, text)
    /\ UNCHANGED <<instance, document, consoleErrors, waitingXHRsRef, files,
                   xhrs, callbacks, request, response, dom>>

\* A fetch of the second call fails at the network.
OtherFetchOnerror(k) ==
    /\ other.xhrs[k].state = "sent"
    /\ other' = [other EXCEPT !.xhrs[k].state = "failed"]
    /\ UNCHANGED <<instance, document, consoleErrors, waitingXHRsRef, files,
                   xhrs, callbacks, request, response, dom>>

NextOverlap ==
    \/ Configure
    \/ Compile
    \/ CompileAgain
    \/ \E k \in DOMAIN xhrs : \E text \in FetchBodies : FetchOnload(k, text)
    \/ \E k \in DOMAIN xhrs : FetchOnerror(k)
    \/ \E k \in DOMAIN other.xhrs : \E text \in FetchBodies : OtherFetchOnload(k, text)
    \/ \E k \in DOMAIN other.xhrs : OtherFetchOnerror(k)

SpecOverlap == Init /\ [][NextOverlap]_vars

----------------------------------------------------------------------------
(* Vocabulary of the properties. *)

\* The enumeration: the source scripts, then the configuration element.
Enumeration == document.scripts \o document.config

RemoteCount == Cardinality({i \in DOMAIN Enumeration : Enumeration[i].hasSrc})

InlineCount == Cardinality({i \in DOMAIN Enumeration : ~Enumeration[i].hasSrc})

Started == request.state # "unsent"

Handled == request.state = "done"

AllFetchesLoaded == Started /\ \A k \in DOMAIN xhrs : xhrs[k].state = "loaded"

EndsWith(s, suffix) ==
    /\ Len(s) >= Len(suffix)
    /\ SubSeq(s, Len(s) - Len(suffix) + 1, Len(s)) = suffix

Contains(text, part) == \E i \in DOMAIN text : text[i] = part

\* The text after the last "/" of a location.
FinalSegment(src) == Substring(src, LastIndexOf(src, Slash) + 1)

\* The envelopes of the protocol.  The diagnostic payload of a compile result
\* is markup with a pre element and a successful result carries a files list;
\* an object without error: true that lacks either is a malformed envelope.
IsServerFault(b) == b.kind = "object" /\ b.error

IsCompileFailure(b) ==
    b.kind = "object" /\ ~b.error /\ ~b.success /\ QueryPre(b.result) # "null"

IsCompileSuccess(b) ==
    /\ b.kind = "object" /\ ~b.error /\ b.success /\ QueryPre(b.result) # "null"
    /\ b.hasFiles
    /\ \A i \in DOMAIN b.files : b.files[i] # NullEntry

\* A batch that fails on the way: a successful result whose files list
\* holds an entry that cannot be injected.
IsBrokenBatch(b) ==
    /\ b.kind = "object" /\ b.success /\ QueryPre(b.result) # "null" /\ b.hasFiles
    /\ \E i \in DOMAIN b.files : b.files[i] = NullEntry

IsMalformed(b) ==
    \/ b.kind \in {"text", "null"}
    \/ /\ b.kind = "object" /\ ~b.error
       /\ \/ QueryPre(b.result) = "null"
          \/ b.success /\ ~b.hasFiles

----------------------------------------------------------------------------
(* Properties. *)

\* C1: the completion callback is invoked at most once, and once every fetch
\* has loaded it has been invoked exactly once, with a Program of exactly
\* R + L fragments (R remote, L inline elements of the enumeration).
C1_CallbackExactlyOnce ==
    /\ callbacks <= 1
    /\ AllFetchesLoaded =>
          /\ callbacks = 1
          /\ Len(request.body) = RemoteCount + InlineCount

C1_Witness ==
    /\ AllFetchesLoaded
    /\ RemoteCount >= 2
    /\ InlineCount >= 1
    /\ callbacks = 1
    /\ Len(request.body) = RemoteCount + InlineCount

\* C2: with no remote fragment the callback has been invoked, and the compile
\* request sent with all L fragments, by the time readScripts returns: no
\* state after compile() has the callback still pending.
C2_SynchronousWhenNoRemote ==
    (Started /\ RemoteCount = 0) =>
        /\ callbacks = 1
        /\ request.state \in {"sent", "done"}
        /\ Len(request.body) = InlineCount

C2_Witness ==
    /\ Started
    /\ Enumeration = <<>>
    /\ callbacks = 1
    /\ request.state = "sent"

\* C3: once the callback has been invoked, the completion check
\* (outstanding is 0 and not fired) no longer passes, so entering the
\* completion path again does not invoke the callback again.
C3_GuardClosedAfterFiring == callbacks >= 1 => ~JoinReady(waitingXHRsRef)

\* C4: after a ServerFault response has been handled, the error report in
\* the status line contains the envelope's reason.
C4_FaultReasonReported ==
    (Handled /\ IsServerFault(response)) =>
        Contains(dom.status.text, response.reason)

\* C5: after a ServerFault response has been handled, no artifact has been
\* injected, whatever else the envelope carries.
C5_FaultInjectsNothing ==
    (Handled /\ IsServerFault(response)) => dom.scripts = <<>>

\* C6: after a CompileFailure response has been handled, its diagnostic
\* output is rendered and no artifact has been injected, whatever its files
\* list holds.
C6_FailureRendersAndInjectsNothing ==
    (Handled /\ IsCompileFailure(response)) =>
        /\ dom.rendered = <<QueryPre(response.result)>>
        /\ dom.scripts = <<>>

C6_Witness ==
    /\ Handled
    /\ IsCompileFailure(response)
    /\ Len(response.files) = 2
    /\ dom.rendered # <<>>
    /\ dom.scripts = <<>>

\* C7: after a transport failure of the compile request, or a response that
\* is not an envelope of the protocol, the status line holds the generic
\* error (nothing of the response) and no artifact has been injected.
C7_GenericErrorOnTransportFailure ==
    (Handled /\ (response.kind = "neterror" \/ IsMalformed(response))) =>
        /\ dom.status = [text |-> GenericError, class |-> "header error"]
        /\ dom.scripts = <<>>

C7_Witness ==
    /\ Handled
    /\ response.kind = "object"
    /\ IsMalformed(response)
    /\ response.success
    /\ response.files # <<>>
    /\ dom.status.text = GenericError
    /\ dom.scripts = <<>>

\* C8: after a CompileSuccess response has been handled, the injected
\* scripts are the artifacts of its files list, one for one and in the
\* list's order.
C8_InjectedInResponseOrder ==
    (Handled /\ IsCompileSuccess(response)) =>
        /\ Len(dom.scripts) = Len(response.files)
        /\ \A i \in DOMAIN response.files :
              dom.scripts[i].innerHTML = response.files[i].content

C8_Witness ==
    /\ Handled
    /\ IsCompileSuccess(response)
    /\ response.files = <<[name |-> <<"m", "d">>, content |-> "notes"],
                          [name |-> <<"b", ".", "j", "s">>, content |-> "code b"]>>
    /\ Len(dom.scripts) = 2
    /\ dom.scripts[1].innerHTML = "notes"
    /\ dom.scripts[2].innerHTML = "code b"

\* C9: every injected artifact has the type outputJsType if and only if its
\* name ends in ".js", and outputOtherType otherwise.
C9_JsTypeIffNameEndsInJs ==
    (Handled /\ Len(dom.scripts) = Len(response.files)) =>
        \A i \in DOMAIN dom.scripts :
            /\ dom.scripts[i].type = OutputJsType
                  <=> EndsWith(response.files[i].name, JsExt)
            /\ dom.scripts[i].type \in {OutputJsType, OutputOtherType}

\* C10: a remote source fragment whose location ends in "/" is named by the
\* placeholder scheme with its ordinal among the source fragments, and any
\* other remote source fragment by its location's final path segment.
C10_RemoteFragmentNames ==
    Started =>
        \A k \in DOMAIN xhrs :
            xhrs[k].index >= 1 =>
                LET src == SrcProperty(document.scripts[xhrs[k].index])
                IN xhrs[k].name = IF EndsWith(src, Slash)
                                  THEN ScriptName(xhrs[k].index - 1)
                                  ELSE FinalSegment(src)

----------------------------------------------------------------------------
(* Vocabulary of the properties of the join. *)

\* The names readScripts gives the elements, in enumeration order.
EnumeratedNames ==
    [i \in DOMAIN Enumeration |->
        IF i <= Len(document.scripts)
        THEN FragmentName(document.scripts[i], i - 1)
        ELSE TsconfigName]

NamesOf(fragments) == [i \in DOMAIN fragments |-> fragments[i].name]

\* The places of the inline elements in the enumeration, in order.
RECURSIVE InlinePlaces(_)
InlinePlaces(i) ==
    IF i > Len(Enumeration) THEN <<>>
    ELSE IF Enumeration[i].hasSrc THEN InlinePlaces(i + 1)
    ELSE <<i>> \o InlinePlaces(i + 1)

InlineFragments ==
    [p \in DOMAIN InlinePlaces(1) |->
        [name |-> EnumeratedNames[InlinePlaces(1)[p]],
         content |-> Enumeration[InlinePlaces(1)[p]].innerHTML]]

AllFetchesEnded ==
    Started /\ \A k \in DOMAIN xhrs : xhrs[k].state \in {"loaded", "failed"}

PrefixOf(a, b) == Len(a) <= Len(b) /\ SubSeq(b, 1, Len(a)) = a

\* The entries of a files list before its first null entry.
BeforeFirstNull(fs) ==
    LET nulls == {i \in DOMAIN fs : fs[i] = NullEntry}
    IN IF nulls = {} THEN fs
       ELSE SubSeq(fs, 1, (CHOOSE i \in nulls : \A j \in nulls : i <= j) - 1)

\* What one invocation has sent is one Program of exactly its enumeration.
SentOwnProgram(j) ==
    /\ j.callbacks = 1
    /\ j.request.state = "sent"
    /\ Len(j.request.body) = RemoteCount + InlineCount
    /\ \A i \in DOMAIN Enumeration :
          Cardinality({p \in DOMAIN j.request.body :
                          j.request.body[p].name = EnumeratedNames[i]})
            = Cardinality({e \in DOMAIN Enumeration :
                          EnumeratedNames[e] = EnumeratedNames[i]})

----------------------------------------------------------------------------
(* Properties of the join. *)

\* C11: the fragments of the Program sent are in enumeration order.
C11_ProgramInDiscoveryOrder ==
    callbacks >= 1 => NamesOf(request.body) = EnumeratedNames

\* C12: while configure has not run, compile() starts nothing: no
\* enumeration, no fetch, no compile request, no injection, and the page is
\* untouched; the misuse goes to the console.
C12_NothingBeforeConfigure ==
    ~instance =>
        /\ request = [state |-> "unsent", body |-> <<>>]
        /\ xhrs = <<>>
        /\ files = <<>>
        /\ callbacks = 0
        /\ response = NoResponse
        /\ dom = InitialDom

C12_Witness ==
    /\ ~instance
    /\ consoleErrors = 1
    /\ request.state = "unsent"
    /\ dom = InitialDom

\* C13: in every state where the callback has been invoked, fired
\* (waitingXHRsRef.called) is true.
C13_FiredSetWhenCalledBack == callbacks >= 1 => waitingXHRsRef.called

\* C14: every fetch is sent with outstanding already at the full remote
\* count R, every remote element is queued, and outstanding is never below
\* the number of fetches in flight.
C14_DispatchAfterEnumeration ==
    /\ \A k \in DOMAIN xhrs :
          xhrs[k].state # "opened" => xhrs[k].waitingAtSend = RemoteCount
    /\ Started =>
          /\ Len(xhrs) = RemoteCount
          /\ \A k \in DOMAIN xhrs : xhrs[k].state # "opened"
    /\ waitingXHRsRef.n >=
          Cardinality({k \in DOMAIN xhrs : xhrs[k].state = "sent"})

C14_Witness ==
    /\ Started
    /\ RemoteCount >= 2
    /\ document.config # <<>>
    /\ document.config[1].hasSrc
    /\ xhrs[1].state = "sent"
    /\ xhrs[1].waitingAtSend = RemoteCount
    /\ waitingXHRsRef.n = RemoteCount

\* C15: once every fetch has ended, in a load or in a failure, outstanding
\* is 0, every fetch has contributed a fragment and the join has fired.
C15_FailedFetchCountsAsDone ==
    AllFetchesEnded =>
        /\ waitingXHRsRef.n = 0
        /\ Len(files) = RemoteCount + InlineCount
        /\ callbacks = 1

\* C16: the callback has been invoked, or the compile request sent, only
\* when every queued fetch has loaded; while a fetch has failed the attempt
\* is pending and nothing has been sent.
C16_SentOnlyAfterAllFetches ==
    /\ (callbacks >= 1 \/ request.state \in {"sent", "done"}) =>
          /\ \A k \in DOMAIN xhrs : xhrs[k].state = "loaded"
          /\ waitingXHRsRef.n = 0
    /\ (\E k \in DOMAIN xhrs : xhrs[k].state = "failed") =>
          /\ callbacks = 0
          /\ request.state = "opened"

C16_Witness ==
    /\ \E k \in DOMAIN xhrs : xhrs[k].state = "failed"
    /\ \E k \in DOMAIN xhrs : xhrs[k].state = "loaded"
    /\ callbacks = 0
    /\ request.state = "opened"

\* C17: the Program handed to the callback holds the inline fragments first,
\* in enumeration order, and then the remote fragments in the order their
\* fetches loaded.
C17_InlineFirstThenLoadOrder ==
    callbacks >= 1 =>
        /\ Len(request.body) = InlineCount + Len(xhrs)
        /\ SubSeq(request.body, 1, InlineCount) = InlineFragments
        /\ \A k \in DOMAIN xhrs :
              /\ xhrs[k].loadedAt \in 1..Len(xhrs)
              /\ request.body[InlineCount + xhrs[k].loadedAt].name = xhrs[k].name

C17_Witness ==
    /\ callbacks = 1
    /\ Len(document.scripts) = 2
    /\ document.scripts[1].hasSrc
    /\ document.scripts[2].hasSrc
    /\ document.config = <<InlineElem>>
    /\ xhrs[1].name # xhrs[2].name
    /\ xhrs[1].loadedAt = 2
    /\ request.body[1].name = TsconfigName
    /\ request.body[2].name = xhrs[2].name
    /\ request.body[3].name = xhrs[1].name

\* C18: every step leaves the injected scripts as they were or appends to
\* them; and after a batch in which an entry could not be injected, the
\* entries before it are injected and no entry after it is.
C18_InjectionAppendOnly ==
    /\ [][PrefixOf(dom.scripts, dom.scripts')]_vars
    /\ [](Handled /\ IsBrokenBatch(response) =>
            /\ Len(dom.scripts) = Len(BeforeFirstNull(response.files))
            /\ \A i \in DOMAIN dom.scripts :
                  dom.scripts[i].innerHTML = BeforeFirstNull(response.files)[i].content)

C18_Witness ==
    /\ Handled
    /\ IsBrokenBatch(response)
    /\ Len(response.files) = 2
    /\ response.files[2] = NullEntry
    /\ Len(dom.scripts) = 1
    /\ dom.scripts[1].innerHTML = response.files[1].content

\* C19: outstanding is never negative and is the number of queued fetches
\* whose load has not been handled; the files array holds the inline
\* fragments and one fragment per load handled.
C19_OutstandingCountsUnhandledFetches ==
    /\ waitingXHRsRef.n >= 0
    /\ waitingXHRsRef.n = Len(xhrs) - LoadedCount(Join)
    /\ Len(files) = (IF Started THEN InlineCount ELSE 0) + LoadedCount(Join)

C19_Witness ==
    /\ InlineCount >= 1
    /\ LoadedCount(Join) = 1
    /\ waitingXHRsRef.n = 1
    /\ \E k \in DOMAIN xhrs : xhrs[k].state = "failed"
    /\ Len(files) = InlineCount + 1

\* C20: of two overlapping invocations each calls back at most once and,
\* when its own fetches have all loaded, has sent one Program of exactly its
\* own enumeration; no step of one invocation changes the other's
\* outstanding counter, result list or request.
C20_InvocationsShareNoJoinState ==
    /\ [](/\ callbacks <= 1
          /\ other.callbacks <= 1
          /\ AllFetchesLoaded => SentOwnProgram(Join)
          /\ (other.request.state # "unsent"
                /\ \A k \in DOMAIN other.xhrs : other.xhrs[k].state = "loaded")
             => SentOwnProgram(other))
    /\ [][/\ other' # other => Join' = Join
          /\ Join' # Join => other' = other]_vars

C20_Witness ==
    /\ RemoteCount >= 2
    /\ SentOwnProgram(other)
    /\ callbacks = 0
    /\ LoadedCount(Join) = 1
    /\ waitingXHRsRef.n = RemoteCount - 1

====
